---- MODULE Spec2Model ----
(***************************************************************************)
(* Model of package htmlquery (query.go): the NodeNavigator cursor over an *)
(* html.Node tree, and the projection helpers InnerText, SelectAttr and    *)
(* OutputHTML.                                                             *)
(*                                                                         *)
(* html.Node pointers are node numbers of the tree `dom`; nil is NoNode.   *)
(* *NodeNavigator pointers are cell numbers of the heap `cell`; a caller's *)
(* variable holding such a pointer is a handle, ptr[h].                    *)
(***************************************************************************)
EXTENDS Integers, Sequences, FiniteSets, TLC

\* ------------------------------------------------------------------ bounds
\* Number of navigator variables (handles) the callers hold.
MaxNav == 2

\* Longest sequence of positions the query engine's iterator yields.
MaxMatch == 2

\* ------------------------------------------------------------ html.Node
\* nil *html.Node
NoNode == 0

\* The attr value of a navigator that denotes curr itself.
NoAttr == -1

\* <!DOCTYPE html><html lang="en-US"><b attr="1" id="2">x</b><!--Logo--><p></p></html>
\* (the shape of htmlSample; TestNavigator's navigator is created on <html>)
TreeSample ==
  [ Type        |-> << "Document", "Doctype", "Element", "Element", "Text", "Comment", "Element" >>,
    Data        |-> << "", "html", "html", "b", "x", "Logo", "p" >>,
    Attr        |-> << << >>, << >>,
                       << [Key |-> "lang", Val |-> "en-US"] >>,
                       << [Key |-> "attr", Val |-> "1"], [Key |-> "id", Val |-> "2"] >>,
                       << >>, << >>, << >> >>,
    Parent      |-> << 0, 1, 1, 3, 4, 3, 3 >>,
    FirstChild  |-> << 2, 0, 4, 5, 0, 0, 0 >>,
    LastChild   |-> << 3, 0, 7, 5, 0, 0, 0 >>,
    PrevSibling |-> << 0, 0, 2, 0, 0, 4, 6 >>,
    NextSibling |-> << 0, 3, 0, 6, 0, 7, 0 >>,
    Tops        |-> { 3 } ]

\* <!DOCTYPE html PUBLIC "x"><html>A<li a="1" b="2">B</li></html>
\* (the parser stores a doctype's public/system identifiers in Attr)
TreeDoctype ==
  [ Type        |-> << "Document", "Doctype", "Element", "Text", "Element", "Text" >>,
    Data        |-> << "", "html", "html", "A", "li", "B" >>,
    Attr        |-> << << >>,
                       << [Key |-> "public", Val |-> "x"] >>,
                       << >>, << >>,
                       << [Key |-> "a", Val |-> "1"], [Key |-> "b", Val |-> "2"] >>,
                       << >> >>,
    Parent      |-> << 0, 1, 1, 3, 3, 5 >>,
    FirstChild  |-> << 2, 0, 4, 0, 6, 0 >>,
    LastChild   |-> << 3, 0, 5, 0, 6, 0 >>,
    PrevSibling |-> << 0, 0, 2, 0, 4, 0 >>,
    NextSibling |-> << 0, 3, 0, 5, 0, 0 >>,
    Tops        |-> { 1 } ]

\* <html><b attr="1"></b></html>, the document of TestXPathCdUp; queries are issued
\* against the document and against <b>.
TreeCdUp ==
  [ Type        |-> << "Document", "Element", "Element" >>,
    Data        |-> << "", "html", "b" >>,
    Attr        |-> << << >>, << >>, << [Key |-> "attr", Val |-> "1"] >> >>,
    Parent      |-> << 0, 1, 2 >>,
    FirstChild  |-> << 2, 3, 0 >>,
    LastChild   |-> << 2, 3, 0 >>,
    PrevSibling |-> << 0, 0, 0 >>,
    NextSibling |-> << 0, 0, 0 >>,
    Tops        |-> { 1, 3 } ]

\* A tree built by hand from html.Node values, not by the parser: a <div> with a
\* repeated attribute name, a comment that was given a child, and a zero-value
\* html.Node (Type = ErrorNode, none of the five kinds) that was given a child.
\* <div k="1" k="2"><!--c [hid]-->t[ErrorNode [u]]</div>
TreeBuilt ==
  [ Type        |-> << "Element", "Comment", "Text", "Text", "Error", "Text" >>,
    Data        |-> << "div", "c", "hid", "t", "", "u" >>,
    Attr        |-> << << [Key |-> "k", Val |-> "1"], [Key |-> "k", Val |-> "2"] >>,
                       << >>, << >>, << >>, << >>, << >> >>,
    Parent      |-> << 0, 1, 2, 1, 1, 5 >>,
    FirstChild  |-> << 2, 3, 0, 0, 6, 0 >>,
    LastChild   |-> << 5, 3, 0, 0, 6, 0 >>,
    PrevSibling |-> << 0, 0, 0, 2, 4, 0 >>,
    NextSibling |-> << 0, 4, 0, 5, 0, 0 >>,
    Tops        |-> { 1 } ]

Trees == { TreeSample, TreeDoctype, TreeCdUp, TreeBuilt }

Nodes(d) == 1 .. Len(d.Type)

\* ------------------------------------------------------------ NodeNavigator
Handles == 1 .. MaxNav

\* A handle that holds no navigator yet (a nil *NodeNavigator).
NoCell == 0

\* The content of a heap cell that is not allocated.
NoNav == [root |-> NoNode, curr |-> NoNode, attr |-> NoAttr]

\* An xpath.NodeNavigator of another implementation, as MoveTo's argument.
Foreign == [foreign |-> TRUE]

VARIABLES
  dom,    \* the html.Node tree the navigators walk
  cell,   \* heap of NodeNavigator values: cell[c] = [root, curr, attr]
  ptr,    \* ptr[h]: the *NodeNavigator the caller's variable h holds
  last    \* the last call: [op, h (receiver or arguments), ret, out (result or argument)]

vars == << dom, cell, ptr, last >>

Used == { h \in Handles : ptr[h] # NoCell }

Free == { h \in Handles : ptr[h] = NoCell }

\* The navigator value a handle denotes.
Nav(h) == cell[ptr[h]]

Call(op, h, ret, out) == [op |-> op, h |-> h, ret |-> ret, out |-> out]

\* What a call that panics leaves in `last`.
Panic == "panic"

\* type NodeNavigator struct { root, curr *html.Node; attr int }
NodeNavigator(root, curr, attr) == [root |-> root, curr |-> curr, attr |-> attr]

\* CreateXPathNavigator(top)
CreateXPathNavigator(top) == NodeNavigator(top, top, NoAttr)

\* A move's outcome: the navigator afterwards and the returned bool.
Res(nav, ok) == [nav |-> nav, ok |-> ok]

\* func (h *NodeNavigator) MoveToRoot(): h.curr = h.root
MoveToRoot(d, n) == [n EXCEPT !.curr = n.root]

\* MoveToParent that does not go above h.root.
MoveToParentStopsAtRoot(d, n) ==
  IF n.attr # NoAttr
    THEN Res([n EXCEPT !.attr = NoAttr], TRUE)
    ELSE IF d.Parent[n.curr] # NoNode /\ n.curr # n.root
      THEN Res([n EXCEPT !.curr = d.Parent[n.curr]], TRUE)
      ELSE Res(n, FALSE)

\* MoveToParent that returns true without assigning h.curr.
MoveToParentForgets(d, n) ==
  IF n.attr # NoAttr
    THEN Res([n EXCEPT !.attr = NoAttr], TRUE)
    ELSE Res(n, d.Parent[n.curr] # NoNode)

MoveToParent(d, n) ==
  IF n.attr # NoAttr
    THEN Res([n EXCEPT !.attr = NoAttr], TRUE)
    ELSE IF d.Parent[n.curr] # NoNode
      THEN Res([n EXCEPT !.curr = d.Parent[n.curr]], TRUE)
      ELSE Res(n, FALSE)

\* MoveToNextAttribute that increments before it tests the bound.
MoveToNextAttributeEager(d, n) ==
  IF n.attr + 1 > Len(d.Attr[n.curr]) - 1
    THEN Res([n EXCEPT !.attr = n.attr + 1], FALSE)
    ELSE Res([n EXCEPT !.attr = n.attr + 1], TRUE)

\* MoveToNextAttribute whose bound is off by one.
MoveToNextAttributeOffByOne(d, n) ==
  IF n.attr >= Len(d.Attr[n.curr])
    THEN Res(n, FALSE)
    ELSE Res([n EXCEPT !.attr = n.attr + 1], TRUE)

MoveToNextAttribute(d, n) ==
  IF n.attr >= Len(d.Attr[n.curr]) - 1
    THEN Res(n, FALSE)
    ELSE Res([n EXCEPT !.attr = n.attr + 1], TRUE)

MoveToChild(d, n) ==
  IF n.attr # NoAttr
    THEN Res(n, FALSE)
    ELSE IF d.FirstChild[n.curr] # NoNode
      THEN Res([n EXCEPT !.curr = d.FirstChild[n.curr]], TRUE)
      ELSE Res(n, FALSE)

\* The loop of MoveToFirst: h.curr = h.curr.PrevSibling until that is nil.
RECURSIVE WalkPrev(_, _)
WalkPrev(d, node) ==
  IF d.PrevSibling[node] = NoNode THEN node ELSE WalkPrev(d, d.PrevSibling[node])

\* MoveToFirst without its loop: one step to the previous sibling.
MoveToFirstOneStep(d, n) ==
  IF n.attr # NoAttr \/ d.PrevSibling[n.curr] = NoNode
    THEN Res(n, FALSE)
    ELSE Res([n EXCEPT !.curr = d.PrevSibling[n.curr]], TRUE)

MoveToFirst(d, n) ==
  IF n.attr # NoAttr \/ d.PrevSibling[n.curr] = NoNode
    THEN Res(n, FALSE)
    ELSE Res([n EXCEPT !.curr = WalkPrev(d, n.curr)], TRUE)

\* MoveToNext without the test of h.attr.
MoveToNextIgnoresAttr(d, n) ==
  IF d.NextSibling[n.curr] # NoNode
    THEN Res([n EXCEPT !.curr = d.NextSibling[n.curr]], TRUE)
    ELSE Res(n, FALSE)

MoveToNext(d, n) ==
  IF n.attr # NoAttr
    THEN Res(n, FALSE)
    ELSE IF d.NextSibling[n.curr] # NoNode
      THEN Res([n EXCEPT !.curr = d.NextSibling[n.curr]], TRUE)
      ELSE Res(n, FALSE)

MoveToPrevious(d, n) ==
  IF n.attr # NoAttr
    THEN Res(n, FALSE)
    ELSE IF d.PrevSibling[n.curr] # NoNode
      THEN Res([n EXCEPT !.curr = d.PrevSibling[n.curr]], TRUE)
      ELSE Res(n, FALSE)

\* MoveTo without the comparison of the roots.
MoveToAnyRoot(n, other) ==
  IF other = Foreign
    THEN Res(n, FALSE)
    ELSE Res([n EXCEPT !.curr = other.curr, !.attr = other.attr], TRUE)

\* MoveTo that adopts other's curr and leaves h.attr as it is.
MoveToKeepsAttr(n, other) ==
  IF other = Foreign \/ other.root # n.root
    THEN Res(n, FALSE)
    ELSE Res([n EXCEPT !.curr = other.curr], TRUE)

\* other is a navigator value, or Foreign when the type assertion fails.
MoveTo(n, other) ==
  IF other = Foreign \/ other.root # n.root
    THEN Res(n, FALSE)
    ELSE Res([n EXCEPT !.curr = other.curr, !.attr = other.attr], TRUE)

\* ------------------------------------------------------- projection helpers
\* InnerText's closure `output`, writing to the buffer, and its loop over the
\* children from FirstChild along NextSibling.
RECURSIVE output(_, _), outputFrom(_, _)
\* output that writes a comment's data like a text node's.
outputKeepsComments(d, n) ==
  IF d.Type[n] = "Text" THEN d.Data[n]
  ELSE IF d.Type[n] = "Comment" THEN d.Data[n]
  ELSE outputFrom(d, d.FirstChild[n])

output(d, n) ==
  IF d.Type[n] = "Text" THEN d.Data[n]
  ELSE IF d.Type[n] = "Comment" THEN ""
  ELSE outputFrom(d, d.FirstChild[n])

outputFrom(d, child) ==
  IF child = NoNode THEN "" ELSE output(d, child) \o outputFrom(d, d.NextSibling[child])

InnerText(d, n) == output(d, n)

\* The range loop of SelectAttr over n.Attr from index i on.
\* The attribute loop without its break: a later match overwrites val.
RECURSIVE SelectFromNoBreak(_, _, _)
SelectFromNoBreak(attrs, i, name) ==
  IF i > Len(attrs) THEN ""
  ELSE LET rest == SelectFromNoBreak(attrs, i + 1, name)
       IN  IF attrs[i].Key = name /\ ~(\E j \in i + 1 .. Len(attrs) : attrs[j].Key = name)
             THEN attrs[i].Val ELSE rest

RECURSIVE SelectFrom(_, _, _)
SelectFrom(attrs, i, name) ==
  IF i > Len(attrs) THEN ""
  ELSE IF attrs[i].Key = name THEN attrs[i].Val
  ELSE SelectFrom(attrs, i + 1, name)

SelectAttr(d, n, name) == IF n = NoNode THEN "" ELSE SelectFrom(d.Attr[n], 1, name)

\* html.Render of one node into the buffer: what it has written, and whether it
\* returned without error. An ErrorNode cannot be rendered; the error ends the
\* rendering of the enclosing nodes, and what was written stays in the buffer.
RECURSIVE Render(_, _), RenderFrom(_, _), RenderAttrs(_, _)
RenderAttrs(attrs, i) ==
  IF i > Len(attrs) THEN ""
  ELSE " " \o attrs[i].Key \o "=" \o attrs[i].Val \o RenderAttrs(attrs, i + 1)

Render(d, n) ==
  IF d.Type[n] = "Text" THEN [out |-> d.Data[n], ok |-> TRUE]
  ELSE IF d.Type[n] = "Comment" THEN [out |-> "<!--" \o d.Data[n] \o "-->", ok |-> TRUE]
  ELSE IF d.Type[n] = "Doctype" THEN [out |-> "<!DOCTYPE " \o d.Data[n] \o ">", ok |-> TRUE]
  ELSE IF d.Type[n] = "Document" THEN RenderFrom(d, d.FirstChild[n])
  ELSE IF d.Type[n] = "Element"
    THEN LET open == "<" \o d.Data[n] \o RenderAttrs(d.Attr[n], 1) \o ">"
             kids == RenderFrom(d, d.FirstChild[n])
         IN  IF kids.ok
               THEN [out |-> open \o kids.out \o "</" \o d.Data[n] \o ">", ok |-> TRUE]
               ELSE [out |-> open \o kids.out, ok |-> FALSE]
  ELSE [out |-> "", ok |-> FALSE]

\* The loop of html.Render over the children of a node: it stops at an error.
RenderFrom(d, child) ==
  IF child = NoNode THEN [out |-> "", ok |-> TRUE]
  ELSE LET r == Render(d, child)
       IN  IF ~r.ok THEN r
           ELSE LET rest == RenderFrom(d, d.NextSibling[child])
                IN  [out |-> r.out \o rest.out, ok |-> rest.ok]

\* The loop of OutputHTML over the children: one html.Render each, its error
\* dropped.
RECURSIVE RenderEach(_, _)
RenderEach(d, child) ==
  IF child = NoNode THEN ""
  ELSE Render(d, child).out \o RenderEach(d, d.NextSibling[child])

OutputHTML(d, n, self) == IF self THEN Render(d, n).out ELSE RenderEach(d, d.FirstChild[n])

\* ---------------------------------------------------------------- inspectors
Current(n) == n.curr

\* NodeType without the case for html.DoctypeNode.
NodeTypeNoDoctype(d, n) ==
  IF d.Type[n.curr] = "Comment" THEN "CommentNode"
  ELSE IF d.Type[n.curr] = "Text" THEN "TextNode"
  ELSE IF d.Type[n.curr] = "Document" THEN "RootNode"
  ELSE IF d.Type[n.curr] = "Element"
    THEN IF n.attr # NoAttr THEN "AttributeNode" ELSE "ElementNode"
  ELSE Panic

NodeType(d, n) ==
  IF d.Type[n.curr] = "Comment" THEN "CommentNode"
  ELSE IF d.Type[n.curr] = "Text" THEN "TextNode"
  ELSE IF d.Type[n.curr] = "Document" THEN "RootNode"
  ELSE IF d.Type[n.curr] = "Element"
    THEN IF n.attr # NoAttr THEN "AttributeNode" ELSE "ElementNode"
  ELSE IF d.Type[n.curr] = "Doctype" THEN "RootNode"
  ELSE Panic

\* h.curr.Attr[h.attr]: an index outside the slice is a run-time panic.
AttrAt(d, n) ==
  IF n.attr >= 0 /\ n.attr < Len(d.Attr[n.curr])
    THEN d.Attr[n.curr][n.attr + 1]
    ELSE [Key |-> Panic, Val |-> Panic]

LocalName(d, n) == IF n.attr # NoAttr THEN AttrAt(d, n).Key ELSE d.Data[n.curr]

Prefix == ""

Value(d, n) ==
  IF d.Type[n.curr] = "Comment" THEN d.Data[n.curr]
  ELSE IF d.Type[n.curr] = "Element"
    THEN IF n.attr # NoAttr THEN AttrAt(d, n).Val ELSE InnerText(d, n.curr)
  ELSE IF d.Type[n.curr] = "Text" THEN d.Data[n.curr]
  ELSE ""

String(d, n) == Value(d, n)

\* -------------------------------------------------------------- query facade
\* xpath.Compile and exp.Select are the query engine's: whether expr compiles,
\* and the sequence of positions t.MoveNext()/t.Current() yields for it on the
\* navigator created on top, are inputs. A position is a NodeNavigator value.
\* The positions drawn are every node of the tree and the first attribute of
\* the first node in document order that has one.
Positions(d, top) ==
  LET owners == { n \in Nodes(d) : Len(d.Attr[n]) > 0 }
  IN  { NodeNavigator(top, c, NoAttr) : c \in Nodes(d) } \cup
      { NodeNavigator(top, c, 0) : c \in { n \in owners : \A o \in owners : n <= o } }

RECURSIVE SeqsUpTo(_, _)
SeqsUpTo(S, n) ==
  IF n = 0 THEN { << >> }
  ELSE LET shorter == SeqsUpTo(S, n - 1)
       IN  shorter \cup { Append(q, x) : q \in { r \in shorter : Len(r) = n - 1 }, x \in S }

\* The error value of a call: nil, or the error of xpath.Compile.
NoError == "nil"

CompileError == "compile error"

\* What a facade call gives back and does: the nodes returned (elems; a nil slice
\* is the empty sequence), the callback calls made, the error, the number of
\* navigators created and the number of t.MoveNext() calls.
Outcome(elems, calls, err, created, moved) ==
  [elems |-> elems, calls |-> calls, err |-> err, created |-> created, moved |-> moved]

\* Find's loop that drops a node it has collected already.
RECURSIVE FindLoopDedup(_, _, _)
FindLoopDedup(matches, i, elems) ==
  IF i > Len(matches) THEN elems
  ELSE FindLoopDedup(matches, i + 1,
         IF \E j \in 1 .. Len(elems) : elems[j] = matches[i].curr
           THEN elems ELSE Append(elems, matches[i].curr))

\* for t.MoveNext() { elems = append(elems, t.Current().(*NodeNavigator).curr) }
RECURSIVE FindLoop(_, _, _)
FindLoop(matches, i, elems) ==
  IF i > Len(matches) THEN elems
  ELSE FindLoop(matches, i + 1, Append(elems, matches[i].curr))

\* Find that creates its navigator before it looks at the error of Compile.
FindCreatesFirst(top, compiles, matches) ==
  IF ~compiles
    THEN Outcome(<< >>, << >>, CompileError, 1, 0)
    ELSE Outcome(FindLoop(matches, 1, << >>), << >>, NoError, 1, Len(matches) + 1)

Find(top, compiles, matches) ==
  IF ~compiles
    THEN Outcome(<< >>, << >>, CompileError, 0, 0)
    ELSE Outcome(FindLoop(matches, 1, << >>), << >>, NoError, 1, Len(matches) + 1)

\* FindOne: one t.MoveNext(); elem stays nil when it returns false.
FindOne(top, compiles, matches) ==
  IF ~compiles
    THEN Outcome(<< >>, << >>, CompileError, 0, 0)
    ELSE Outcome(IF Len(matches) > 0 THEN << matches[1].curr >> ELSE << >>,
                 << >>, NoError, 1, 1)

\* i := 0; for t.MoveNext() { cb(i, curr); i++ }
RECURSIVE FindEachLoop(_, _, _)
FindEachLoop(matches, i, calls) ==
  IF i + 1 > Len(matches) THEN calls
  ELSE FindEachLoop(matches, i + 1, Append(calls, << i, matches[i + 1].curr >>))

FindEach(top, compiles, matches) ==
  IF ~compiles
    THEN Outcome(<< >>, << >>, CompileError, 0, 0)
    ELSE Outcome(<< >>, FindEachLoop(matches, 0, << >>), NoError, 1, Len(matches) + 1)

\* ------------------------------------------------------------------ actions
Init ==
  /\ dom \in Trees
  /\ cell = [c \in Handles |-> NoNav]
  /\ ptr = [h \in Handles |-> NoCell]
  /\ last = Call("none", NoCell, TRUE, NoCell)

\* The caller's next unused variable, and the cell the allocator hands out.
NewHandle == CHOOSE h \in Free : \A g \in Free : h <= g

NewCell == CHOOSE c \in Handles : cell[c] = NoNav /\ \A c2 \in Handles : cell[c2] = NoNav => c <= c2

\* nav := CreateXPathNavigator(top): &NodeNavigator{curr: top, root: top, attr: -1}
DoCreate(top) ==
  /\ Free # {}
  /\ cell' = [cell EXCEPT ![NewCell] = CreateXPathNavigator(top)]
  /\ ptr' = [ptr EXCEPT ![NewHandle] = NewCell]
  /\ last' = Call("Create", NewHandle, TRUE, NoCell)
  /\ UNCHANGED dom

\* Copy that returns h itself instead of the address of a copy.
CopyAlias(h) ==
  /\ h \in Used
  /\ Free # {}
  /\ ptr' = [ptr EXCEPT ![NewHandle] = ptr[h]]
  /\ last' = Call("Copy", NewHandle, TRUE, h)
  /\ UNCHANGED << dom, cell >>

\* g := h.Copy(): n := *h; return &n
Copy(h) ==
  /\ h \in Used
  /\ Free # {}
  /\ cell' = [cell EXCEPT ![NewCell] = Nav(h)]
  /\ ptr' = [ptr EXCEPT ![NewHandle] = NewCell]
  /\ last' = Call("Copy", NewHandle, TRUE, h)
  /\ UNCHANGED dom

DoMoveToRoot(h) ==
  /\ h \in Used
  /\ cell' = [cell EXCEPT ![ptr[h]] = MoveToRoot(dom, Nav(h))]
  /\ last' = Call("MoveToRoot", h, TRUE, NoCell)
  /\ UNCHANGED << dom, ptr >>

\* A bool-returning move through handle h with outcome r; arg is the handle
\* given as argument (MoveTo), NoCell when there is none.
Moved(op, h, r, arg) ==
  /\ cell' = [cell EXCEPT ![ptr[h]] = r.nav]
  /\ last' = Call(op, h, r.ok, arg)
  /\ UNCHANGED << dom, ptr >>

DoMoveToParent(h) == h \in Used /\ Moved("MoveToParent", h, MoveToParent(dom, Nav(h)), NoCell)

DoMoveToNextAttribute(h) ==
  h \in Used /\ Moved("MoveToNextAttribute", h, MoveToNextAttribute(dom, Nav(h)), NoCell)

DoMoveToChild(h) == h \in Used /\ Moved("MoveToChild", h, MoveToChild(dom, Nav(h)), NoCell)

DoMoveToFirst(h) == h \in Used /\ Moved("MoveToFirst", h, MoveToFirst(dom, Nav(h)), NoCell)

DoMoveToNext(h) == h \in Used /\ Moved("MoveToNext", h, MoveToNext(dom, Nav(h)), NoCell)

DoMoveToPrevious(h) == h \in Used /\ Moved("MoveToPrevious", h, MoveToPrevious(dom, Nav(h)), NoCell)

DoMoveTo(h, g) ==
  /\ h \in Used
  /\ g \in Used
  /\ Moved("MoveTo", h, MoveTo(Nav(h), Nav(g)), g)

DoMoveToForeign(h) ==
  /\ h \in Used
  /\ Moved("MoveTo", h, MoveTo(Nav(h), Foreign), NoCell)

\* A call that only reads: its result goes to `last`.
Reads(op, h, ok, out) ==
  /\ last' = Call(op, h, ok, out)
  /\ UNCHANGED << dom, cell, ptr >>

DoCurrent(h) == h \in Used /\ Reads("Current", h, TRUE, Current(Nav(h)))

DoNodeType(h) == h \in Used /\ Reads("NodeType", h, NodeType(dom, Nav(h)) # Panic, NodeType(dom, Nav(h)))

DoLocalName(h) == h \in Used /\ Reads("LocalName", h, LocalName(dom, Nav(h)) # Panic, LocalName(dom, Nav(h)))

DoPrefix(h) == h \in Used /\ Reads("Prefix", h, TRUE, Prefix)

DoValue(h) == h \in Used /\ Reads("Value", h, Value(dom, Nav(h)) # Panic, Value(dom, Nav(h)))

DoString(h) == h \in Used /\ Reads("String", h, String(dom, Nav(h)) # Panic, String(dom, Nav(h)))

\* The attribute names callers look up: those of the tree, and one it lacks.
Names(d) ==
  UNION { { d.Attr[n][i].Key : i \in 1 .. Len(d.Attr[n]) } : n \in Nodes(d) } \cup { "none" }

\* InnerText that blanks the text nodes it has written out.
DoInnerTextConsumes(n) ==
  /\ last' = Call("InnerText", << n >>, TRUE, InnerText(dom, n))
  /\ dom' = [dom EXCEPT !.Data = [m \in Nodes(dom) |->
                 IF dom.Type[m] = "Text" THEN "" ELSE dom.Data[m]]]
  /\ UNCHANGED << cell, ptr >>

DoInnerText(n) == Reads("InnerText", << n >>, TRUE, InnerText(dom, n))

DoSelectAttr(n, name) == Reads("SelectAttr", << n, name >>, TRUE, SelectAttr(dom, n, name))

DoOutputHTML(n, self) == Reads("OutputHTML", << n, self >>, TRUE, OutputHTML(dom, n, self))

Next ==
  \/ \E top \in dom.Tops : DoCreate(top)
  \/ \E h \in Handles : Copy(h)
  \/ \E h \in Handles : DoMoveToRoot(h)
  \/ \E h \in Handles : DoMoveToParent(h)
  \/ \E h \in Handles : DoMoveToNextAttribute(h)
  \/ \E h \in Handles : DoMoveToChild(h)
  \/ \E h \in Handles : DoMoveToFirst(h)
  \/ \E h \in Handles : DoMoveToNext(h)
  \/ \E h \in Handles : DoMoveToPrevious(h)
  \/ \E h, g \in Handles : DoMoveTo(h, g)
  \/ \E h \in Handles : DoMoveToForeign(h)
  \/ \E h \in Handles : DoCurrent(h)
  \/ \E h \in Handles : DoNodeType(h)
  \/ \E h \in Handles : DoLocalName(h)
  \/ \E h \in Handles : DoPrefix(h)
  \/ \E h \in Handles : DoValue(h)
  \/ \E h \in Handles : DoString(h)

\* The projection helpers, called on nodes of the tree.
NextProj ==
  \/ \E n \in Nodes(dom) : DoInnerText(n)
  \/ \E n \in Nodes(dom) \cup { NoNode } : \E name \in Names(dom) : DoSelectAttr(n, name)
  \/ \E n \in Nodes(dom) : \E self \in BOOLEAN : DoOutputHTML(n, self)

\* The arguments of a facade call, with the engine's answers for expr.
Query(top, compiles, matches) == [top |-> top, compiles |-> compiles, matches |-> matches]

\* The engine's answers for the expressions callers pass: one that does not
\* compile, and the ones that compile, each with the positions it selects.
Queries(d) ==
  { Query(top, FALSE, << >>) : top \in d.Tops } \cup
  UNION { { Query(top, TRUE, m) : m \in SeqsUpTo(Positions(d, top), MaxMatch) } : top \in d.Tops }

DoFind(q) ==
  LET r == Find(q.top, q.compiles, q.matches) IN Reads("Find", q, r.err = NoError, r)

DoFindOne(q) ==
  LET r == FindOne(q.top, q.compiles, q.matches) IN Reads("FindOne", q, r.err = NoError, r)

DoFindEach(q) ==
  LET r == FindEach(q.top, q.compiles, q.matches) IN Reads("FindEach", q, r.err = NoError, r)

\* The query facade, called on nodes of the tree.
NextFind ==
  \/ \E q \in Queries(dom) : DoFind(q)
  \/ \E q \in Queries(dom) : DoFindOne(q)
  \/ \E q \in Queries(dom) : DoFindEach(q)

\* The query facade alone.
SpecFind == Init /\ [][NextFind]_vars

\* The navigators alone.
Spec == Init /\ [][Next]_vars

\* The projection helpers alone.
SpecProj == Init /\ [][NextProj]_vars

\* The whole package: navigators and projection helpers over one tree.
NextAll == Next \/ NextProj

SpecAll == Init /\ [][NextAll]_vars

\* The moves that return a bool.
BoolMoves ==
  { "MoveToParent", "MoveToNextAttribute", "MoveToChild", "MoveToFirst",
    "MoveToNext", "MoveToPrevious", "MoveTo" }

TypeOK ==
  /\ dom \in Trees
  /\ \A h \in Used : Nav(h) # NoNav

\* ------------------------------------------------------- loops, step by step
\* MoveToFirst's for loop and InnerText's recursion, one iteration or one call
\* of output per step. `last` holds the call in progress: op "MoveToFirst.for"
\* or "InnerText.output" while it runs, "MoveToFirst" or "InnerText" once it has
\* returned. The code is sequential: no other call starts while one runs.
Running == last.op \in { "MoveToFirst.for", "InnerText.output" }

\* The loop of MoveToFirst following NextSibling.
LoopNodeNext(d, curr) == d.NextSibling[curr]

\* node := h.curr.PrevSibling
LoopNode(d, curr) == d.PrevSibling[curr]

\* The progress of a MoveToFirst call: the node it started on and the number
\* of times the loop has assigned h.curr.
Progress(start, steps) == [start |-> start, steps |-> steps]

\* The call of MoveToFirst up to the loop.
FirstEnter(h) ==
  /\ h \in Used
  /\ LET n == Nav(h)
     IN  IF n.attr # NoAttr \/ dom.PrevSibling[n.curr] = NoNode
           THEN Moved("MoveToFirst", h, Res(n, FALSE), Progress(n.curr, 0))
           ELSE Moved("MoveToFirst.for", h, Res(n, TRUE), Progress(n.curr, 0))

\* One iteration of the loop: break and return true, or h.curr = node.
FirstStep ==
  /\ last.op = "MoveToFirst.for"
  /\ LET n    == Nav(last.h)
         node == LoopNode(dom, n.curr)
     IN  IF node = NoNode
           THEN Moved("MoveToFirst", last.h, Res(n, TRUE), last.out)
           ELSE Moved("MoveToFirst.for", last.h, Res([n EXCEPT !.curr = node], TRUE),
                      Progress(last.out.start, last.out.steps + 1))

\* The state of an InnerText call: the loop variable child of every output call
\* that is in its loop (innermost last), the nodes output has been called on, in
\* order, and the buffer.
Walk(stack, seen, buf) == [stack |-> stack, seen |-> seen, buf |-> buf]

\* output(buf, m) up to its loop: a text node is written and a comment
\* skipped, both returning at once; any other node starts its loop at
\* FirstChild.
outputCall(d, w, m) ==
  IF d.Type[m] = "Text" THEN Walk(w.stack, Append(w.seen, m), w.buf \o d.Data[m])
  ELSE IF d.Type[m] = "Comment" THEN Walk(w.stack, Append(w.seen, m), w.buf)
  ELSE Walk(Append(w.stack, d.FirstChild[m]), Append(w.seen, m), w.buf)

\* What `last` records of an InnerText call in state w: returned when no output
\* call is left.
Walked(n, w) ==
  IF w.stack = << >> THEN Call("InnerText", << n >>, TRUE, w)
  ELSE Call("InnerText.output", << n >>, TRUE, w)

\* InnerText(n) up to the first loop.
TextEnter(n) ==
  /\ last' = Walked(n, outputCall(dom, Walk(<< >>, << >>, ""), n))
  /\ UNCHANGED << dom, cell, ptr >>

\* One test of the innermost loop: it ends and output returns, or output is
\* called on child. The loop variable is advanced as the call is made; the call
\* changes no link of the tree.
TextStep ==
  /\ last.op = "InnerText.output"
  /\ LET w     == last.out
         top   == Len(w.stack)
         child == w.stack[top]
     IN  last' = Walked(last.h[1],
                   IF child = NoNode
                     THEN Walk(SubSeq(w.stack, 1, top - 1), w.seen, w.buf)
                     ELSE outputCall(dom,
                            Walk([w.stack EXCEPT ![top] = dom.NextSibling[child]], w.seen, w.buf),
                            child))
  /\ UNCHANGED << dom, cell, ptr >>

\* Navigators are placed by whole moves; MoveToFirst and InnerText run by steps.
NextLoop ==
  \/ ~Running /\ \E top \in dom.Tops : DoCreate(top)
  \/ ~Running /\ \E h \in Handles : DoMoveToChild(h)
  \/ ~Running /\ \E h \in Handles : DoMoveToNext(h)
  \/ ~Running /\ \E h \in Handles : DoMoveToNextAttribute(h)
  \/ ~Running /\ \E h \in Handles : FirstEnter(h)
  \/ ~Running /\ \E n \in Nodes(dom) : TextEnter(n)
  \/ FirstStep
  \/ TextStep

\* MoveToFirst and InnerText by steps, on navigators placed by whole moves.
SpecLoop == Init /\ [][NextLoop]_vars

\* ------------------------------------------------------------------- claims
\* The navigator a call was made through, after the call.
Recv == Nav(last.h)

\* C1: MoveToRoot, called in any cursor state, leaves the cursor with
\* curr = root and attr = -1.
C1_MoveToRootResets ==
  last.op = "MoveToRoot" => Recv.curr = Recv.root /\ Recv.attr = NoAttr

\* C2: in every reachable state, a navigator whose attr is not -1 has an
\* Element as curr.
C2_AttrOnlyOnElement ==
  \A h \in Used : Nav(h).attr # NoAttr => dom.Type[Nav(h).curr] = "Element"

\* C3: in every reachable state, attr is -1 or an index of curr's attribute
\* list, 0 .. len(curr.Attr)-1.
C3_AttrInRange ==
  \A h \in Used :
    Nav(h).attr = NoAttr \/ Nav(h).attr \in 0 .. Len(dom.Attr[Nav(h).curr]) - 1

\* C4: a move that returns false leaves every navigator (root, curr, attr) as it
\* was before the call.
C4_FailedMoveLeavesCursor ==
  [][ (last'.op \in BoolMoves /\ ~last'.ret) => (cell' = cell /\ ptr' = ptr) ]_vars

\* MoveToNextAttribute has just failed on the last of the attributes of curr.
C4_Witness ==
  /\ last.op = "MoveToNextAttribute"
  /\ ~last.ret
  /\ Recv.attr # NoAttr
  /\ Recv.attr = Len(dom.Attr[Recv.curr]) - 1

\* The navigator after j successive MoveToNextAttribute calls from n.
RECURSIVE AfterNextAttributes(_, _, _)
AfterNextAttributes(d, n, j) ==
  IF j = 0 THEN n ELSE MoveToNextAttribute(d, AfterNextAttributes(d, n, j - 1)).nav

\* C5: at an element e with k >= 1 attributes and attr = -1, exactly k successive
\* MoveToNextAttribute calls succeed, visiting the indices 0 .. k-1 in order, the
\* next one fails, and MoveToParent from each of those positions succeeds and
\* gives attr = -1 with curr = e.
C5_AttributeWalk ==
  \A h \in Used :
    LET n == Nav(h)
        k == Len(dom.Attr[n.curr])
    IN  (n.attr = NoAttr /\ dom.Type[n.curr] = "Element" /\ k >= 1) =>
          /\ \A j \in 1 .. k :
               /\ MoveToNextAttribute(dom, AfterNextAttributes(dom, n, j - 1)).ok
               /\ AfterNextAttributes(dom, n, j) = [n EXCEPT !.attr = j - 1]
               /\ MoveToParent(dom, AfterNextAttributes(dom, n, j)) = Res(n, TRUE)
          /\ MoveToNextAttribute(dom, AfterNextAttributes(dom, n, k))
               = Res(AfterNextAttributes(dom, n, k), FALSE)

\* MoveToParent has just brought a navigator back from an attribute to an element
\* that has two attributes or more.
C5_Witness ==
  /\ last.op = "MoveToParent"
  /\ last.ret
  /\ Recv.attr = NoAttr
  /\ dom.Type[Recv.curr] = "Element"
  /\ Len(dom.Attr[Recv.curr]) >= 2
  /\ dom.FirstChild[Recv.curr] # NoNode
  /\ dom.Type[dom.FirstChild[Recv.curr]] = "Text"

\* C6: when MoveToChild succeeds from a node n with attr = -1, a MoveToParent
\* right after it succeeds and puts the navigator back on n with attr = -1.
C6_ChildParentRoundTrip ==
  [][ (last'.op = "MoveToChild" /\ last'.ret) =>
        MoveToParent(dom', cell'[ptr'[last'.h]]) = Res(cell[ptr[last'.h]], TRUE) ]_vars

\* MoveToChild has just succeeded, onto a node whose parent is not the root of
\* the navigator.
C6_Witness ==
  /\ last.op = "MoveToChild"
  /\ last.ret
  /\ dom.Parent[Recv.curr] # Recv.root
  /\ dom.Parent[Recv.curr] # NoNode

\* C7: the position after two MoveToFirst calls is the position after one; and
\* a MoveToFirst that succeeds lands on the node with the same parent as the
\* starting node that has no preceding sibling.
C7_MoveToFirstIdempotent ==
  [][ last'.op = "MoveToFirst" =>
        LET before == cell[ptr[last'.h]]
            after  == cell'[ptr'[last'.h]]
        IN  /\ MoveToFirst(dom', after).nav = after
            /\ last'.ret =>
                 /\ dom.PrevSibling[after.curr] = NoNode
                 /\ dom.Parent[after.curr] = dom.Parent[before.curr]
                 /\ after.curr # before.curr
                 /\ after.root = before.root
                 /\ after.attr = before.attr ]_vars

\* MoveToFirst has just succeeded on a chain of three siblings or more.
C7_Witness ==
  /\ last.op = "MoveToFirst"
  /\ last.ret
  /\ dom.NextSibling[Recv.curr] # NoNode
  /\ dom.NextSibling[dom.NextSibling[Recv.curr]] # NoNode

\* C8: MoveTo(other) between two navigators whose roots differ returns false and
\* leaves the receiver's root, curr and attr as they were.
C8_MoveToOtherRootFails ==
  [][ ( /\ last'.op = "MoveTo"
        /\ last'.out \in Used
        /\ Nav(last'.out).root # Nav(last'.h).root )
      => (~last'.ret /\ cell' = cell /\ ptr' = ptr) ]_vars

\* MoveTo has just failed between two navigators with different roots that stand
\* on different nodes.
C8_Witness ==
  /\ last.op = "MoveTo"
  /\ ~last.ret
  /\ last.out \in Used
  /\ Nav(last.out).root # Recv.root
  /\ Nav(last.out).curr # Recv.curr

\* C9: Copy returns a navigator in a cell of its own with the root, curr and
\* attr of the original, and a call made through one navigator variable leaves
\* the navigator of every other variable as it was.
C9_CopyIndependent ==
  [][ /\ \A x \in Used : x # last'.h => cell'[ptr'[x]] = cell[ptr[x]]
      /\ last'.op = "Copy" =>
           /\ cell'[ptr'[last'.h]] = cell[ptr[last'.out]]
           /\ \A x \in Used : ptr'[last'.h] # ptr[x] /\ cell'[ptr'[x]] = cell[ptr[x]] ]_vars

\* A navigator has just moved down while another navigator with the same root is
\* still on the root.
C9_Witness ==
  /\ last.op = "MoveToChild"
  /\ last.ret
  /\ \E g \in Used :
       /\ g # last.h
       /\ Nav(g).root = Recv.root
       /\ Nav(g).curr = Nav(g).root
       /\ Recv.curr # Recv.root

\* C10: no call changes the tree: kinds, data, attribute lists and the parent,
\* child and sibling links stay what they were.
C10_TreeUnchanged == [][dom' = dom]_vars

\* A projection helper has just run while a navigator stands away from its root.
C10_Witness ==
  /\ last.op = "InnerText"
  /\ last.out # ""
  /\ \E h \in Used : Nav(h).curr # Nav(h).root

\* m is n or a descendant of n, by the Parent links.
RECURSIVE Under(_, _, _)
Under(d, m, n) == m = n \/ (d.Parent[m] # NoNode /\ Under(d, d.Parent[m], n))

\* Some node on the path from m up to n, both included, is a Comment.
RECURSIVE CommentOnPath(_, _, _)
CommentOnPath(d, m, n) ==
  \/ d.Type[m] = "Comment"
  \/ (m # n /\ d.Parent[m] # NoNode /\ CommentOnPath(d, d.Parent[m], n))

\* The node numbers of a tree follow document order: a first child follows its
\* parent, a next sibling follows the subtree of its previous sibling.
NumberedInDocumentOrder(d) ==
  \A n \in Nodes(d) :
    /\ d.FirstChild[n] # NoNode => d.FirstChild[n] = n + 1
    /\ d.NextSibling[n] # NoNode =>
         d.NextSibling[n] = n + Cardinality({ m \in Nodes(d) : Under(d, m, n) })

\* The Data of the nodes of S from number i on, joined in the order of the numbers.
RECURSIVE JoinData(_, _, _)
JoinData(d, S, i) ==
  IF i > Len(d.Type) THEN ""
  ELSE (IF i \in S THEN d.Data[i] ELSE "") \o JoinData(d, S, i + 1)

\* The Text nodes under n that are not below a Comment of n's subtree.
TextsOf(d, n) ==
  { m \in Nodes(d) : d.Type[m] = "Text" /\ Under(d, m, n) /\ ~CommentOnPath(d, m, n) }

\* C11: InnerText(n) is the Data, joined in document order, of exactly the Text
\* nodes of n's subtree that are neither a Comment nor below one; the data of a
\* Comment and of its descendants is never part of it.
C11_InnerTextSkipsComments ==
  last.op = "InnerText" =>
    /\ NumberedInDocumentOrder(dom)
    /\ last.out = JoinData(dom, TextsOf(dom, last.h[1]), 1)

\* InnerText has just returned text for a node whose subtree holds a comment that
\* has a text node below it.
C11_Witness ==
  /\ last.op = "InnerText"
  /\ last.out # ""
  /\ \E m \in Nodes(dom) :
       /\ dom.Type[m] = "Text"
       /\ m # last.h[1]
       /\ Under(dom, m, last.h[1])
       /\ CommentOnPath(dom, m, last.h[1])

\* The calls of the query facade.
Facades == { "Find", "FindOne", "FindEach" }

\* C12: for the same node and the same expression that compiles, Find returns
\* the nodes of the engine's positions in the engine's order, repeated nodes
\* kept; FindEach calls cb once per position with the indices 0, 1, 2, ... and
\* the same nodes, so as many times as Find's result is long; FindOne returns the
\* first of them, or nil with no error when there is none.
C12_FacadesAgree ==
  (last.op \in Facades /\ last.h.compiles) =>
    LET q    == last.h
        m    == q.matches
        all  == Find(q.top, TRUE, m)
        one  == FindOne(q.top, TRUE, m)
        each == FindEach(q.top, TRUE, m)
    IN  /\ last.out = (IF last.op = "Find" THEN all
                       ELSE IF last.op = "FindOne" THEN one ELSE each)
        /\ Len(all.elems) = Len(m)
        /\ \A i \in 1 .. Len(m) : all.elems[i] = m[i].curr
        /\ Len(each.calls) = Len(all.elems)
        /\ \A i \in 1 .. Len(m) : each.calls[i] = << i - 1, all.elems[i] >>
        /\ one.elems = (IF Len(m) = 0 THEN << >> ELSE << all.elems[1] >>)
        /\ all.err = NoError /\ one.err = NoError /\ each.err = NoError

\* FindEach has just run over positions that name the same node twice.
C12_Witness ==
  /\ last.op = "FindEach"
  /\ last.h.compiles
  /\ Len(last.h.matches) = MaxMatch
  /\ last.h.matches[1].curr = last.h.matches[MaxMatch].curr
  /\ Len(last.out.calls) = MaxMatch

\* C13: when the expression does not compile, Find, FindOne and FindEach return
\* the error of Compile with no node, create no navigator, never advance the
\* iterator, and FindEach never calls cb.
C13_CompileErrorReturned ==
  (last.op \in Facades /\ ~last.h.compiles) =>
    /\ last.out.err = CompileError
    /\ ~last.ret
    /\ last.out.elems = << >>
    /\ last.out.calls = << >>
    /\ last.out.created = 0
    /\ last.out.moved = 0

\* Find has just returned the error of Compile.
C13_Witness ==
  /\ last.op = "Find"
  /\ ~last.h.compiles
  /\ last.out.err = CompileError

\* C14: SelectAttr(n, name) returns the value of the first attribute of n, in
\* list order, whose key is name, and the empty string when n is nil or no
\* attribute of n has that key.
C14_SelectAttrFirstMatch ==
  last.op = "SelectAttr" =>
    LET n     == last.h[1]
        name  == last.h[2]
        attrs == IF n = NoNode THEN << >> ELSE dom.Attr[n]
        hits  == { i \in 1 .. Len(attrs) : attrs[i].Key = name }
    IN  IF hits = { }
          THEN last.out = ""
          ELSE \E i \in hits : (\A j \in hits : i <= j) /\ last.out = attrs[i].Val

\* SelectAttr has just looked up a key that two attributes of the node carry
\* with different values.
C14_Witness ==
  /\ last.op = "SelectAttr"
  /\ last.h[1] # NoNode
  /\ \E i, j \in 1 .. Len(dom.Attr[last.h[1]]) :
       /\ i < j
       /\ dom.Attr[last.h[1]][i].Key = last.h[2]
       /\ dom.Attr[last.h[1]][j].Key = last.h[2]
       /\ dom.Attr[last.h[1]][i].Val # dom.Attr[last.h[1]][j].Val
       /\ last.out = dom.Attr[last.h[1]][i].Val

C16_ValueByKind ==
  last.op = "Value" =>
    LET kind == dom.Type[Recv.curr]
    IN  /\ last.ret
        /\ IF kind \in { "Comment", "Text" } THEN last.out = dom.Data[Recv.curr]
           ELSE IF kind = "Element" /\ Recv.attr # NoAttr
             THEN /\ Recv.attr + 1 \in 1 .. Len(dom.Attr[Recv.curr])
                  /\ last.out = dom.Attr[Recv.curr][Recv.attr + 1].Val
           ELSE IF kind = "Element" THEN last.out = JoinData(dom, TextsOf(dom, Recv.curr), 1)
           ELSE last.out = ""

\* The moves to a child or a sibling.
TreeMoves == { "MoveToChild", "MoveToFirst", "MoveToNext", "MoveToPrevious" }

\* C17: called on a navigator whose attr is not -1, MoveToChild, MoveToFirst,
\* MoveToNext and MoveToPrevious return false, whatever children and siblings
\* curr has; a move that succeeds from such a position is MoveToNextAttribute,
\* MoveToParent, MoveToRoot or MoveTo.
C17_NoTreeMoveFromAttribute ==
  [][ (last'.op \in BoolMoves \cup { "MoveToRoot" } /\ Nav(last'.h).attr # NoAttr) =>
        /\ last'.op \in TreeMoves => (~last'.ret /\ cell' = cell)
        /\ last'.ret =>
             last'.op \in { "MoveToNextAttribute", "MoveToParent", "MoveToRoot", "MoveTo" } ]_vars

\* MoveToNext has just failed on an attribute of a node that has a next sibling.
C17_Witness ==
  /\ last.op = "MoveToNext"
  /\ ~last.ret
  /\ Recv.attr # NoAttr
  /\ dom.NextSibling[Recv.curr] # NoNode

\* C18: MoveTo(other) with other a NodeNavigator of the same root returns true;
\* afterwards the receiver has other's curr and attr and the root it had, and
\* other (and every other navigator) is as it was.
C18_MoveToSameRoot ==
  [][ (last'.op = "MoveTo" /\ last'.out # NoCell /\ Nav(last'.out).root = Nav(last'.h).root) =>
        /\ last'.ret
        /\ ptr' = ptr
        /\ cell'[ptr[last'.h]].curr = Nav(last'.out).curr
        /\ cell'[ptr[last'.h]].attr = Nav(last'.out).attr
        /\ cell'[ptr[last'.h]].root = Nav(last'.h).root
        /\ \A c \in DOMAIN cell : c # ptr[last'.h] => cell'[c] = cell[c] ]_vars

\* MoveTo has just brought the receiver to an attribute another navigator of
\* the same root is on.
C18_Witness ==
  /\ last.op = "MoveTo"
  /\ last.ret
  /\ last.out # NoCell
  /\ last.out # last.h
  /\ Recv.attr # NoAttr
  /\ Recv = Nav(last.out)

\* C20: no operation changes the root of a navigator, and curr is always a node
\* of the tree root is in, never nil; curr is not kept inside the subtree of
\* root: MoveToParent at attr = -1 returns true and moves to the parent whenever
\* curr has one, also when curr = root.
C20_RootKeptCurrInTree ==
  [][ /\ \A h \in Used : ptr'[h] = ptr[h] /\ cell'[ptr[h]].root = Nav(h).root
      /\ \A h \in Handles : ptr'[h] # NoCell =>
           /\ cell'[ptr'[h]].root \in dom.Tops
           /\ cell'[ptr'[h]].curr \in Nodes(dom)
      /\ (last'.op = "MoveToParent" /\ Nav(last'.h).attr = NoAttr
            /\ dom.Parent[Nav(last'.h).curr] # NoNode) =>
           /\ last'.ret
           /\ cell'[ptr[last'.h]].curr = dom.Parent[Nav(last'.h).curr] ]_vars

\* MoveToParent has just left the subtree of the root the navigator was
\* created on.
C20_Witness ==
  /\ last.op = "MoveToParent"
  /\ last.ret
  /\ Recv.curr # NoNode
  /\ ~Under(dom, Recv.curr, Recv.root)

\* The number of siblings before node.
RECURSIVE NumPrev(_, _)
NumPrev(d, node) ==
  IF d.PrevSibling[node] = NoNode THEN 0 ELSE 1 + NumPrev(d, d.PrevSibling[node])

\* The loop of MoveToFirst has assigned h.curr at most as often as the start
\* node has siblings before it, and when the call returns true h.curr has no
\* sibling before it.
FirstBounded ==
  last.op \in { "MoveToFirst.for", "MoveToFirst" } =>
    /\ last.out.steps <= NumPrev(dom, last.out.start)
    /\ (last.op = "MoveToFirst" /\ last.ret) =>
         /\ dom.PrevSibling[Recv.curr] = NoNode
         /\ dom.Parent[Recv.curr] = dom.Parent[last.out.start]

\* InnerText has called output on nodes of the subtree of n only, on none of
\* them twice, and when it returns the buffer is what InnerText returns.
TextVisitsOnce ==
  last.op \in { "InnerText.output", "InnerText" } =>
    /\ \A i \in 1 .. Len(last.out.seen) : Under(dom, last.out.seen[i], last.h[1])
    /\ \A i, j \in 1 .. Len(last.out.seen) : i # j => last.out.seen[i] # last.out.seen[j]
    /\ last.op = "InnerText" => last.out.buf = InnerText(dom, last.h[1])

\* What is left of the call in progress: for MoveToFirst the siblings before
\* h.curr and the return; for InnerText the nodes of the subtree output has not
\* been called on, counted twice, and the output calls to return from.
Variant ==
  IF last.op \in { "MoveToFirst.for", "MoveToFirst" }
    THEN NumPrev(dom, Recv.curr) + (IF last.op = "MoveToFirst.for" THEN 1 ELSE 0)
  ELSE IF last.op \in { "InnerText.output", "InnerText" }
    THEN 2 * Cardinality({ m \in Nodes(dom) :
                            /\ Under(dom, m, last.h[1])
                            /\ \A i \in 1 .. Len(last.out.seen) : last.out.seen[i] # m })
         + Len(last.out.stack)
  ELSE 0

\* The call in progress has a next step.
CanStep == ENABLED (FirstStep \/ TextStep)

\* C19: on every tree, a MoveToFirst call and an InnerText call that have
\* started return: while one runs it has a next step, and every step makes
\* what is left of the call smaller; the loop of MoveToFirst reaches a node
\* without a sibling before it after at most as many steps as the start node
\* has siblings before it, and InnerText's recursion visits each node of the
\* subtree at most once.
C19_LoopsTerminate ==
  /\ [](FirstBounded /\ TextVisitsOnce /\ (Running => CanStep))
  /\ [][ Running => (Variant' < Variant /\ Variant' >= 0) ]_vars

\* MoveToFirst has just returned after two steps of its loop.
C19_Witness ==
  /\ last.op = "MoveToFirst"
  /\ last.ret
  /\ last.out.steps = 2
  /\ NumPrev(dom, last.out.start) = 2
====
